---- MODULE Spec2Model ----
(***************************************************************************)
(* Model of the two asset tools of M5PomodoroNG:                           *)
(*   tools/generate_sounds.py  (generate_tone, generate_silence, write_wav)*)
(*   tools/wav2array.py        (read_wav_header, wav_to_c_array, main)     *)
(*                                                                         *)
(* Bytes are integers 0..255 and a bytes object is a sequence of them;     *)
(* Python offsets are 0-based, TLA+ sequences 1-based (see Slice).         *)
(* A value that may need more than 31 bits (a '<I' field, an offset or a   *)
(* product computed from one) is kept exactly as two limbs                 *)
(* [hi, lo] standing for hi * 65536 + lo with lo in 0..65535.              *)
(***************************************************************************)
EXTENDS Integers, Sequences, FiniteSets, TLC

VARIABLES
    pc,           \* position of the running tool
    data,         \* the bytes handed to read_wav_header
    pos,          \* read_wav_header: scan offset (two limbs)
    examined,     \* read_wav_header: offsets at which a chunk header was read
    outcome,      \* read_wav_header: what the call produced
    samples,      \* write_wav: the sample list
    sample_rate,  \* write_wav: sample_rate (two limbs)
    file,         \* write_wav: the bytes of the file on disk
    wstatus,      \* write_wav: how the call ended
    argv,         \* wav2array main: [n, path, var] (n = len(sys.argv))
    exists,       \* wav2array main: os.path.exists(wav_file)
    row_i,        \* wav_to_c_array: loop index i of the row loop
    output,       \* wav_to_c_array: the text built so far
    stdout,       \* wav2array main: what was printed to standard output
    stderr,       \* wav2array main: the messages on standard error
    exit_status,  \* wav2array main: the process exit status
    frequency,    \* generate_tone: frequency
    rate_hz,      \* generate_tone / generate_silence: sample_rate
    duration_ms,  \* generate_tone / generate_silence: duration_ms
    tone_i,       \* generate_tone: loop index i
    tone,         \* generate_tone: the list samples built so far
    silence       \* generate_silence: the returned list

vars == <<pc, data, pos, examined, outcome, samples, sample_rate, file, wstatus,
          argv, exists, row_i, output, stdout, stderr, exit_status,
          frequency, rate_hz, duration_ms, tone_i, tone, silence>>

parserVars == <<data, pos, examined, outcome>>
writerVars == <<samples, sample_rate, file, wstatus>>
mainVars   == <<argv, exists, row_i, output, stdout, stderr, exit_status>>
toneVars   == <<frequency, rate_hz, duration_ms, tone_i, tone, silence>>

(***************************************************************************)
(* Bounds of the model.                                                    *)
(***************************************************************************)
MaxChunks == 3      \* chunks after the RIFF/WAVE header of a generated buffer
MaxCut == 16        \* bytes cut off the end of a generated buffer
MaxSamples == 2     \* samples handed to write_wav
MaxEncSamples == 3  \* samples of the WAV file handed to the encoder
MaxDurationMs == 3  \* duration_ms handed to the generators

(***************************************************************************)
(* Bytes, slices and struct.pack / struct.unpack.                          *)
(***************************************************************************)
Min(a, b) == IF a < b THEN a ELSE b

\* data[a:b] of Python for 0 <= a, 0 <= b: clipped to the buffer, never an error.
Slice(d, a, b) == SubSeq(d, a + 1, Min(b, Len(d)))

RECURSIVE Concat(_)
Concat(ss) == IF ss = <<>> THEN <<>> ELSE Head(ss) \o Concat(Tail(ss))

U32(h, l) == [hi |-> h, lo |-> l]
ToU32(n)  == [hi |-> n \div 65536, lo |-> n % 65536]

\* struct.pack raises struct.error on a value outside the format's range
CanPackH(v) == v \in 0..65535
CanPackh(v) == v \in -32768..32767
CanPackI(v) == v.hi \in 0..65535
\* struct.pack('<H', v)
PackH(v) == <<v % 256, v \div 256>>
\* struct.pack('<h', v): two's complement
Packh(v) == <<((v + 65536) % 65536) % 256, ((v + 65536) % 65536) \div 256>>
\* struct.pack('<I', v), v in limbs
PackI(v) == <<v.lo % 256, v.lo \div 256, v.hi % 256, v.hi \div 256>>
\* struct.unpack(fmt, s) raises struct.error unless s holds exactly n bytes
CanUnpack(s, n) == Len(s) = n
\* struct.unpack('<H', s)[0]
UnpackH(s) == s[1] + 256 * s[2]
\* struct.unpack('<I', s)[0], in limbs
UnpackI(s) == U32(s[3] + 256 * s[4], s[1] + 256 * s[2])

RIFF == <<82, 73, 70, 70>>       \* b'RIFF'
WAVE == <<87, 65, 86, 69>>       \* b'WAVE'
FMT  == <<102, 109, 116, 32>>    \* b'fmt '
DATA == <<100, 97, 116, 97>>     \* b'data'

(***************************************************************************)
(* read_wav_header (wav2array.py:18-52), one action per step.              *)
(***************************************************************************)
NoOutcome == [kind |-> "none"]
Raised(k) == [kind |-> k]

\* data[a:b] == magic (the code tests !=); the variant skips the comparison
\* on a buffer that ends before offset b
MagicAt_SkipShort(d, a, b, magic) == Len(d) < b \/ Slice(d, a, b) = magic
MagicAt(d, a, b, magic) == Slice(d, a, b) = magic

\* the variant compares three bytes only
IsRiff_3Bytes(d) == MagicAt(d, 0, 3, <<82, 73, 70>>)
IsRiff(d) == MagicAt(d, 0, 4, RIFF)
IsWave(d) == MagicAt(d, 8, 12, WAVE)

\* while pos < len(data) - 8  (a buffer is shorter than 65536 bytes, so an
\* offset with a non-zero high limb is past its end)
LoopCond(p, d) == p.hi = 0 /\ p.lo < Len(d) - 8

\* pos += 8 + chunk_size; if chunk_size % 2 == 1: pos += 1
\* (the variant leaves the pad byte out)
Advance_NoPad(p, cs) ==
    LET lo == p.lo + 8 + cs.lo
    IN  [hi |-> p.hi + cs.hi + (lo \div 65536), lo |-> lo % 65536]
Advance(p, cs) ==
    LET lo == p.lo + 8 + cs.lo + (IF cs.lo % 2 = 1 THEN 1 ELSE 0)
    IN  [hi |-> p.hi + cs.hi + (lo \div 65536), lo |-> lo % 65536]

\* the four struct.unpack calls of the 'fmt ' branch and the dict returned
\* (the variant reads bits_per_sample at +20, where block_align lies)
ParseFmt_Bits20(d, p, cs) ==
    IF /\ CanUnpack(Slice(d, p + 8, p + 10), 2)
       /\ CanUnpack(Slice(d, p + 10, p + 12), 2)
       /\ CanUnpack(Slice(d, p + 12, p + 16), 4)
       /\ CanUnpack(Slice(d, p + 20, p + 22), 2)
    THEN [kind |-> "descriptor",
          format |-> UnpackH(Slice(d, p + 8, p + 10)),
          channels |-> UnpackH(Slice(d, p + 10, p + 12)),
          sample_rate |-> UnpackI(Slice(d, p + 12, p + 16)),
          bits_per_sample |-> UnpackH(Slice(d, p + 20, p + 22)),
          chunk_size |-> cs]
    ELSE Raised("struct_error")
ParseFmt(d, p, cs) ==
    IF /\ CanUnpack(Slice(d, p + 8, p + 10), 2)
       /\ CanUnpack(Slice(d, p + 10, p + 12), 2)
       /\ CanUnpack(Slice(d, p + 12, p + 16), 4)
       /\ CanUnpack(Slice(d, p + 22, p + 24), 2)
    THEN [kind |-> "descriptor",
          format |-> UnpackH(Slice(d, p + 8, p + 10)),
          channels |-> UnpackH(Slice(d, p + 10, p + 12)),
          sample_rate |-> UnpackI(Slice(d, p + 12, p + 16)),
          bits_per_sample |-> UnpackH(Slice(d, p + 22, p + 24)),
          chunk_size |-> cs]
    ELSE Raised("struct_error")

\* if data[0:4] != b'RIFF': raise ValueError
CheckRiff ==
    /\ pc = "riff"
    /\ IF IsRiff(data)
       THEN pc' = "wave" /\ outcome' = outcome
       ELSE pc' = "parsed" /\ outcome' = Raised("invalid_container")
    /\ UNCHANGED <<data, pos, examined, writerVars, mainVars, toneVars>>

\* if data[8:12] != b'WAVE': raise ValueError; pos = 12
CheckWave ==
    /\ pc = "wave"
    /\ IF IsWave(data)
       THEN pc' = "scan" /\ pos' = U32(0, 12) /\ outcome' = outcome
       ELSE pc' = "parsed" /\ pos' = pos /\ outcome' = Raised("invalid_container")
    /\ UNCHANGED <<data, examined, writerVars, mainVars, toneVars>>

\* one iteration of the while loop: read the chunk header at pos, then either
\* parse the 'fmt ' chunk and return, or advance past the chunk
ScanChunk ==
    /\ pc = "scan"
    /\ LoopCond(pos, data)
    /\ LET chunk_id   == Slice(data, pos.lo, pos.lo + 4)
           chunk_size == UnpackI(Slice(data, pos.lo + 4, pos.lo + 8))
       IN  /\ examined' = Append(examined, pos.lo)
           /\ IF chunk_id = FMT
              THEN /\ outcome' = ParseFmt(data, pos.lo, chunk_size)
                   /\ pc' = "parsed"
                   /\ pos' = pos
              ELSE /\ pos' = Advance(pos, chunk_size)
                   /\ pc' = "scan"
                   /\ outcome' = outcome
    /\ UNCHANGED <<data, writerVars, mainVars, toneVars>>

\* the loop condition fails: raise ValueError("No fmt chunk found in WAV file")
ScanExhausted ==
    /\ pc = "scan"
    /\ ~LoopCond(pos, data)
    /\ pc' = "parsed"
    /\ outcome' = Raised("no_fmt")
    /\ UNCHANGED <<data, pos, examined, writerVars, mainVars, toneVars>>

(***************************************************************************)
(* generate_tone and generate_silence (generate_sounds.py:15-43).          *)
(***************************************************************************)
\* int(x) of the quotient a / b (b > 0): truncation toward zero
TruncDiv(a, b) == IF a >= 0 THEN a \div b ELSE -((-a) \div b)

\* num_samples = int(sample_rate * duration_ms / 1000)
\* (the variant rounds up)
NumSamples_Ceil(rate, ms) == TruncDiv(rate * ms + 999, 1000)
NumSamples(rate, ms) == TruncDiv(rate * ms, 1000)

\* math.sin(2 * math.pi * frequency * i / sample_rate) in thousandths, with
\* the phase taken to the eighth of a turn below it: the values run over
\* the whole range [-1, 1] of the sine, both ends included
SinTable == <<0, 707, 1000, 707, 0, -707, -1000, -707>>
SinMilli(freq, i, rate) == SinTable[((((freq * i) % rate) * 8) \div rate) + 1]

\* value = amplitude * sin(...) with amplitude = 0.3; sample = int(value * 32767)
ToneSample(freq, i, rate) == TruncDiv(3 * SinMilli(freq, i, rate) * 32767, 10 * 1000)

\* one iteration of: for i in range(num_samples)
ToneStep ==
    /\ pc = "tone"
    /\ tone_i < NumSamples(rate_hz, duration_ms)
    /\ tone' = Append(tone, ToneSample(frequency, tone_i, rate_hz))
    /\ tone_i' = tone_i + 1
    /\ pc' = "tone"
    /\ UNCHANGED <<frequency, rate_hz, duration_ms, silence, parserVars, writerVars, mainVars>>

\* the loop is over: return samples
ToneReturn ==
    /\ pc = "tone"
    /\ tone_i >= NumSamples(rate_hz, duration_ms)
    /\ pc' = "silence"
    /\ UNCHANGED <<toneVars, parserVars, writerVars, mainVars>>

\* generate_silence(duration_ms, sample_rate): [0] * num_samples
GenerateSilence ==
    /\ pc = "silence"
    /\ silence' = [k \in 1..NumSamples(rate_hz, duration_ms) |-> 0]
    /\ pc' = "generated"
    /\ UNCHANGED <<frequency, rate_hz, duration_ms, tone_i, tone, parserVars, writerVars, mainVars>>

(***************************************************************************)
(* write_wav (generate_sounds.py:46-86).                                   *)
(***************************************************************************)
\* u * k and u // k for a value u in limbs and a small k > 0
MulSmall(u, k) == [hi |-> u.hi * k + ((u.lo * k) \div 65536), lo |-> (u.lo * k) % 65536]
DivSmall(u, k) == [hi |-> u.hi \div k, lo |-> ((u.hi % k) * 65536 + u.lo) \div k]

\* byte_rate = sample_rate * num_channels * bits_per_sample // 8
ByteRate(rate, num_channels, bits_per_sample) ==
    DivSmall(MulSmall(MulSmall(rate, num_channels), bits_per_sample), 8)

\* block_align = num_channels * bits_per_sample // 8
\* (the variant forgets the division)
BlockAlign_NoDiv(num_channels, bits_per_sample) == num_channels * bits_per_sample
BlockAlign(num_channels, bits_per_sample) == (num_channels * bits_per_sample) \div 8

\* the f.write calls in order: what each writes and whether its pack succeeds
Written(b) == [ok |-> TRUE, bytes |-> b]
WrittenH(v) == [ok |-> CanPackH(v), bytes |-> PackH(v)]
Writtenh(v) == [ok |-> CanPackh(v), bytes |-> Packh(v)]
WrittenI(v) == [ok |-> CanPackI(v), bytes |-> PackI(v)]

WavWrites(smp, rate) ==
    LET num_samples     == Len(smp)
        bits_per_sample == 16
        num_channels    == 1
        byte_rate       == ByteRate(rate, num_channels, bits_per_sample)
        block_align     == BlockAlign(num_channels, bits_per_sample)
        data_size       == num_samples * block_align
    IN  << Written(RIFF), WrittenI(ToU32(36 + data_size)), Written(WAVE),
           Written(FMT), WrittenI(ToU32(16)), WrittenH(1), WrittenH(num_channels),
           WrittenI(rate), WrittenI(byte_rate), WrittenH(block_align),
           WrittenH(bits_per_sample),
           Written(DATA), WrittenI(ToU32(data_size)) >>
        \o [k \in 1..num_samples |-> Writtenh(smp[k])]

\* the bytes in the file when the with-block is left: every write up to the
\* first pack that raises
RECURSIVE FileAfter(_)
FileAfter(ws) ==
    IF ws = <<>> \/ ~Head(ws).ok THEN <<>>
    ELSE Head(ws).bytes \o FileAfter(Tail(ws))

AllOk(ws) == \A k \in 1..Len(ws) : ws[k].ok

\* write_wav(filename, samples, sample_rate); the file is then on disk for
\* wav2array to open.  The closing print divides num_samples by sample_rate.
WriteWav ==
    /\ pc = "write"
    /\ LET ws == WavWrites(samples, sample_rate)
       IN  /\ file' = FileAfter(ws)
           /\ wstatus' = IF ~AllOk(ws) THEN "struct_error"
                         ELSE IF sample_rate = U32(0, 0) THEN "zero_division"
                         ELSE "ok"
    /\ pc' = "enc_read"
    /\ UNCHANGED <<samples, sample_rate, parserVars, mainVars, toneVars>>

(***************************************************************************)
(* wav_to_c_array (wav2array.py:55-85).                                    *)
(***************************************************************************)
\* with open(wav_file, 'rb') as f: data = f.read(); then read_wav_header(data)
EncodeRead ==
    /\ pc = "enc_read"
    /\ data' = file
    /\ pos' = U32(0, 0) /\ examined' = <<>> /\ outcome' = NoOutcome
    /\ pc' = "riff"
    /\ UNCHANGED <<writerVars, mainVars, toneVars>>

HexDigits == <<"0", "1", "2", "3", "4", "5", "6", "7",
               "8", "9", "A", "B", "C", "D", "E", "F">>
\* f"0x{b:02X}"
Hex(b) == <<"0", "x", HexDigits[(b \div 16) + 1], HexDigits[(b % 16) + 1]>>

\* if i + 16 < len(data): output += ","   (the variant tests <=)
RowComma_Le(i, n) == i + 16 <= n
RowComma(i, n) == i + 16 < n

\* header_info = read_wav_header(data) has returned or raised; on a return the
\* comment lines and the opening line of the array are appended to output
EncodeHeader ==
    /\ pc = "parsed"
    /\ IF outcome.kind = "descriptor"
       THEN /\ output' = << [t |-> "comment_name", path |-> argv.path],
                            [t |-> "comment_format", channels |-> outcome.channels,
                             sample_rate |-> outcome.sample_rate,
                             bits_per_sample |-> outcome.bits_per_sample],
                            [t |-> "comment_size", size |-> Len(data)],
                            [t |-> "blank"],
                            [t |-> "open", var |-> argv.var] >>
            /\ row_i' = 0
            /\ pc' = "rows"
       ELSE /\ pc' = "except"
            /\ UNCHANGED <<output, row_i>>
    /\ UNCHANGED <<parserVars, writerVars, argv, exists, stdout, stderr, exit_status, toneVars>>

\* one iteration of: for i in range(0, len(data), 16)
EncodeRow ==
    /\ pc = "rows"
    /\ row_i < Len(data)
    /\ LET chunk == Slice(data, row_i, row_i + 16)
       IN  output' = Append(output,
                        [t |-> "row",
                         lits |-> [k \in 1..Len(chunk) |-> Hex(chunk[k])],
                         comma |-> RowComma(row_i, Len(data))])
    /\ row_i' = row_i + 16
    /\ pc' = "rows"
    /\ UNCHANGED <<parserVars, writerVars, argv, exists, stdout, stderr, exit_status, toneVars>>

\* the loop is over: "};", the _len declaration, return output
EncodeFinish ==
    /\ pc = "rows"
    /\ row_i >= Len(data)
    /\ output' = output \o << [t |-> "close"], [t |-> "len", var |-> argv.var] >>
    /\ pc' = "enc_done"
    /\ UNCHANGED <<parserVars, writerVars, argv, exists, row_i, stdout, stderr, exit_status, toneVars>>

(***************************************************************************)
(* main of wav2array.py (lines 88-110).                                    *)
(***************************************************************************)
NotExited == -1     \* exit_status while the process runs

\* len(sys.argv) != 3 is the usage error (the variant lets extra arguments pass)
ArgsOk_AtLeast(n) == n >= 3
ArgsOk(n) == n = 3

\* str.lower() on the characters the model's paths use
LowerChar(c) == CASE c = "A" -> "a" [] c = "V" -> "v" [] c = "W" -> "w" [] OTHER -> c
Lower(str) == [k \in 1..Len(str) |-> LowerChar(str[k])]
\* str.endswith(suffix)
EndsWith(str, suffix) ==
    /\ Len(str) >= Len(suffix)
    /\ SubSeq(str, Len(str) - Len(suffix) + 1, Len(str)) = suffix

MainArgs ==
    /\ pc = "main"
    /\ IF ArgsOk(argv.n)
       THEN pc' = "main_exists" /\ UNCHANGED <<stderr, exit_status>>
       ELSE pc' = "exited" /\ stderr' = Append(stderr, "usage") /\ exit_status' = 1
    /\ UNCHANGED <<parserVars, writerVars, argv, exists, row_i, output, stdout, toneVars>>

MainExists ==
    /\ pc = "main_exists"
    /\ IF exists
       THEN pc' = "main_ext" /\ UNCHANGED <<stderr, exit_status>>
       ELSE pc' = "exited" /\ stderr' = Append(stderr, "not_found") /\ exit_status' = 1
    /\ UNCHANGED <<parserVars, writerVars, argv, exists, row_i, output, stdout, toneVars>>

MainExtension ==
    /\ pc = "main_ext"
    /\ stderr' = IF EndsWith(Lower(argv.path), <<".", "w", "a", "v">>)
                 THEN stderr ELSE Append(stderr, "warning")
    /\ pc' = "enc_read"
    /\ UNCHANGED <<parserVars, writerVars, argv, exists, row_i, output, stdout, exit_status, toneVars>>

\* print(result); main returns and the interpreter exits with status 0
MainPrint ==
    /\ pc = "enc_done"
    /\ stdout' = output
    /\ exit_status' = 0
    /\ pc' = "exited"
    /\ UNCHANGED <<parserVars, writerVars, argv, exists, row_i, output, stderr, toneVars>>

\* except Exception as e: print(f"Error: {e}", file=sys.stderr); sys.exit(1)
MainExcept ==
    /\ pc = "except"
    /\ stderr' = Append(stderr, "error")
    /\ exit_status' = 1
    /\ pc' = "exited"
    /\ UNCHANGED <<parserVars, writerVars, argv, exists, row_i, output, stdout, toneVars>>

(***************************************************************************)
(* Buffers handed to read_wav_header: a 12-byte header followed by up to   *)
(* MaxChunks chunks, with up to MaxCut bytes cut off the end.              *)
(***************************************************************************)
\* the 'fmt ' chunk as write_wav lays it out (generate_sounds.py:68-75)
FmtChunk(format, channels, rate, byte_rate, block_align, bits) ==
    FMT \o PackI(ToU32(16)) \o PackH(format) \o PackH(channels) \o PackI(rate)
        \o PackI(byte_rate) \o PackH(block_align) \o PackH(bits)

Chunk(id, size, payload) == id \o PackI(size) \o payload

ChunkKinds ==
    { FmtChunk(1, 1, ToU32(16000), ToU32(32000), 2, 16),
      FmtChunk(3, 2, ToU32(44100), ToU32(88200), 2, 8),
      Chunk(DATA, ToU32(0), <<>>),
      Chunk(DATA, ToU32(1), <<7, 0>>),      \* odd size, pad byte present
      Chunk(DATA, ToU32(1), <<7>>),         \* odd size, pad byte missing
      Chunk(DATA, U32(1, 0), <<>>),         \* declared size beyond the buffer
      Chunk(DATA, ToU32(24),                \* payload that looks like a 'fmt ' chunk
            FmtChunk(1, 2, ToU32(8000), ToU32(32000), 4, 16)) }

Header(riff, wave) == riff \o <<0, 0, 0, 0>> \o wave

ChunkLists == UNION { [1..n -> ChunkKinds] : n \in 0..MaxChunks }

CutEnd(d, c) == SubSeq(d, 1, Len(d) - Min(c, Len(d)))

Buffers ==
    { CutEnd(Header(RIFF, WAVE) \o Concat(cl), c) : cl \in ChunkLists, c \in 0..MaxCut }
    \cup
    { CutEnd(Header(h[1], h[2]) \o k, c) :
        h \in { <<<<82, 73, 70, 88>>, WAVE>>, <<RIFF, <<87, 65, 86, 88>> >> },
        k \in ChunkKinds, c \in 0..MaxCut }

(***************************************************************************)
(* Idle values of the variables a tool does not use.                       *)
(***************************************************************************)
ParserIdle ==
    /\ data = <<>> /\ pos = U32(0, 0) /\ examined = <<>> /\ outcome = NoOutcome
WriterIdle ==
    /\ samples = <<>> /\ sample_rate = U32(0, 0) /\ file = <<>> /\ wstatus = "none"
MainIdle ==
    /\ argv = [n |-> 0, path |-> <<>>, var |-> ""] /\ exists = FALSE /\ row_i = 0
    /\ output = <<>> /\ stdout = <<>> /\ stderr = <<>> /\ exit_status = NotExited
ToneIdle ==
    /\ frequency = 0 /\ rate_hz = 0 /\ duration_ms = 0 /\ tone_i = 0 /\ tone = <<>> /\ silence = <<>>

(***************************************************************************)
(* SpecWav: read_wav_header called on a generated buffer, or write_wav     *)
(* called on a sample list and a rate and the file it wrote then opened    *)
(* and handed to read_wav_header.                                          *)
(***************************************************************************)
SampleVals == {-32768, -1, 0, 1, 32767}
SampleLists == UNION { [1..n -> SampleVals] : n \in 0..MaxSamples }
\* sample rates from 0 to 2^32 - 1
Rates == { U32(0, 0), U32(0, 8000), U32(0, 16000), U32(0, 44100), U32(1, 0),
           U32(32767, 65535), U32(32768, 0), U32(65535, 65535) }

InitParser ==
    /\ pc = "riff"
    /\ data \in Buffers
    /\ pos = U32(0, 0) /\ examined = <<>> /\ outcome = NoOutcome
    /\ WriterIdle /\ MainIdle /\ ToneIdle

InitWriter ==
    /\ pc = "write"
    /\ samples \in SampleLists
    /\ sample_rate \in Rates
    /\ file = <<>> /\ wstatus = "none"
    /\ ParserIdle /\ MainIdle /\ ToneIdle

InitWav == InitParser \/ InitWriter

NextWav == WriteWav \/ EncodeRead \/ CheckRiff \/ CheckWave \/ ScanChunk \/ ScanExhausted

SpecWav == InitWav /\ [][NextWav]_vars

(***************************************************************************)
(* Claims about read_wav_header, stated for SpecWav.                       *)
(***************************************************************************)
\* little-endian fields read straight from the buffer at a 0-based offset
Le16At(d, off) == d[off + 1] + 256 * d[off + 2]
Le32At(d, off) == U32(d[off + 3] + 256 * d[off + 4], d[off + 1] + 256 * d[off + 2])

\* a RIFF/WAVE buffer that holds exactly one chunk, a 'data' chunk whose
\* declared size is its payload's length (padded to an even length)
DataOnly(d) ==
    /\ Len(d) >= 20
    /\ SubSeq(d, 1, 4) = RIFF /\ SubSeq(d, 9, 12) = WAVE /\ SubSeq(d, 13, 16) = DATA
    /\ Le32At(d, 16).hi = 0
    /\ Len(d) = 20 + Le32At(d, 16).lo + (Le32At(d, 16).lo % 2)

\* the offset of the first 'fmt ' chunk on the chunk chain from offset p on
\* (successor: p + 8 + size, plus 1 if size is odd), or -1 if the chain ends
\* (no 8-byte chunk header left at p) before one is met
RECURSIVE FirstFmt(_, _)
FirstFmt(d, p) ==
    IF p + 8 > Len(d) THEN -1
    ELSE IF SubSeq(d, p + 1, p + 4) = FMT THEN p
    ELSE IF Le32At(d, p + 4).hi > 0 THEN -1
    ELSE FirstFmt(d, p + 8 + Le32At(d, p + 4).lo + (Le32At(d, p + 4).lo % 2))

\* C3: a buffer whose first 4 bytes are not 'RIFF' (also one shorter than 4
\* bytes) or whose bytes 8..11 are not 'WAVE' is refused with the
\* invalid-container error, and a well-formed RIFF/WAVE buffer holding only a
\* 'data' chunk is refused with the missing-format-chunk error.
C3_ErrorKinds ==
    pc = "parsed" =>
        /\ (Len(data) < 4 \/ SubSeq(data, 1, 4) # RIFF)
              => outcome.kind = "invalid_container"
        /\ (Len(data) < 12 \/ SubSeq(data, 9, 12) # WAVE)
              => outcome.kind = "invalid_container"
        /\ DataOnly(data) => outcome.kind = "no_fmt"

C3_Witness ==
    /\ pc = "parsed"
    /\ DataOnly(data) /\ Len(data) = 22
    /\ examined = <<12>>
    /\ outcome.kind = "no_fmt"

\* C4 (as claimed): the no-fmt error is raised only once fewer than 8 bytes
\* remain at pos (every offset with at least 8 bytes left has its chunk header
\* read), and no header that was read has id 'fmt '.
C4_HeaderReadWhile8Remain ==
    (pc = "parsed" /\ outcome.kind = "no_fmt") =>
        /\ ~(pos.hi = 0 /\ pos.lo + 8 <= Len(data))
        /\ \A k \in 1..Len(examined) : Slice(data, examined[k], examined[k] + 4) # FMT

\* C5: read_wav_header returns a descriptor exactly when the first 'fmt '
\* chunk on the chunk chain from offset 12 has its 24 bytes in the buffer, and
\* the descriptor's fields are that chunk's: format at +8, channels at +10,
\* sample_rate at +12, bits_per_sample at +22, chunk_size at +4; nothing after
\* that chunk is looked at.
C5_FirstFmtChunk ==
    (pc = "parsed" /\ outcome.kind # "invalid_container") =>
        LET p == FirstFmt(data, 12)
        IN  /\ outcome.kind = "descriptor" <=> (p >= 0 /\ p + 24 <= Len(data))
            /\ outcome.kind = "descriptor" =>
                 /\ outcome.format = Le16At(data, p + 8)
                 /\ outcome.channels = Le16At(data, p + 10)
                 /\ outcome.sample_rate = Le32At(data, p + 12)
                 /\ outcome.bits_per_sample = Le16At(data, p + 22)
                 /\ outcome.chunk_size = Le32At(data, p + 4)
                 /\ examined[Len(examined)] = p

\* an odd-sized chunk, then a 'fmt ' chunk, then a different 'fmt ' chunk
C5_Witness ==
    /\ pc = "parsed"
    /\ examined = <<12, 22>>
    /\ Len(data) = 70
    /\ SubSeq(data, 47, 50) = FMT
    /\ outcome.kind = "descriptor"
    /\ outcome.format = 1 /\ outcome.channels = 1 /\ outcome.bits_per_sample = 16
    /\ outcome.sample_rate = ToU32(16000)
    /\ Le16At(data, 46 + 8) = 3

\* C10 (as claimed): every call of read_wav_header ends in one of three ways:
\* a descriptor, the invalid-container error or the missing-format-chunk error.
C10_ThreeOutcomes ==
    pc = "parsed" => outcome.kind \in {"descriptor", "invalid_container", "no_fmt"}

(***************************************************************************)
(* Claims about write_wav, stated for SpecWav.                            *)
(***************************************************************************)
\* 2 * R in limbs
Twice(r) == [hi |-> 2 * r.hi + ((2 * r.lo) \div 65536), lo |-> (2 * r.lo) % 65536]

RoundTrips ==
    /\ outcome.kind = "descriptor"
    /\ outcome.format = 1 /\ outcome.channels = 1 /\ outcome.bits_per_sample = 16
    /\ outcome.sample_rate = sample_rate
    /\ outcome.chunk_size = ToU32(16)

Layout ==
    /\ Len(file) = 44 + 2 * Len(samples)
    /\ Le32At(file, 4) = ToU32(36 + 2 * Len(samples))
    /\ Le32At(file, 40) = ToU32(2 * Len(samples))
    /\ Le16At(file, 32) = 2
    /\ Le32At(file, 28) = Twice(sample_rate)

\* C1 (as claimed): for every in-range sample list and every rate R in
\* 0 .. 2^32 - 1, the bytes write_wav produced are accepted by read_wav_header
\* with format 1, channels 1, bits_per_sample 16, sample_rate R, chunk_size 16.
C1_RoundTripEveryRate ==
    (wstatus # "none" /\ pc = "parsed") => RoundTrips

\* C1 (amended): the same for every rate R in 0 .. 2^31 - 1.
C1_RoundTrip ==
    (wstatus # "none" /\ pc = "parsed" /\ sample_rate.hi < 32768) => RoundTrips

C1_Witness ==
    /\ wstatus = "ok" /\ pc = "parsed"
    /\ Len(samples) = 2 /\ sample_rate = U32(32767, 65535)
    /\ RoundTrips

\* C2 (as claimed): for N in-range samples and every rate R the file is
\* 44 + 2N bytes long, its RIFF size field is 36 + 2N, its data size field 2N,
\* its block_align field 2 and its byte_rate field 2R.
C2_LayoutEveryRate ==
    wstatus # "none" => Layout

\* C2 (amended): the same for every rate R in 0 .. 2^31 - 1.
C2_Layout ==
    (wstatus # "none" /\ sample_rate.hi < 32768) => Layout

C2_Witness ==
    /\ wstatus = "ok"
    /\ Len(samples) = 2 /\ samples[1] = -32768 /\ sample_rate = ToU32(44100)
    /\ Layout
    /\ SubSeq(file, 45, 48) = <<0, 128>> \o Packh(samples[2])

(***************************************************************************)
(* SpecEncoder: wav2array.py run on a command line and a file system.      *)
(* The file, when it exists, is a prefix (any length, 0 included) of a     *)
(* WAV file of MaxEncSamples samples as write_wav lays it out.             *)
(***************************************************************************)
EncSamples == [k \in 1..MaxEncSamples |-> 257 * k - 600]
EncFull == FileAfter(WavWrites(EncSamples, ToU32(16000)))
EncFiles == { SubSeq(EncFull, 1, n) : n \in 0..Len(EncFull) }
Paths == { <<"a", ".", "w", "a", "v">>, <<"A", ".", "W", "A", "V">>,
           <<"a", ".", "b", "i", "n">>, <<"w", "a", "v">> }

InitEncoder ==
    /\ pc = "main"
    /\ argv \in [n : 1..4, path : Paths, var : {"wav_x"}]
    /\ exists \in BOOLEAN
    /\ file \in EncFiles
    /\ ~exists => file = <<>>
    /\ samples = <<>> /\ sample_rate = U32(0, 0) /\ wstatus = "none"
    /\ row_i = 0 /\ output = <<>> /\ stdout = <<>> /\ stderr = <<>>
    /\ exit_status = NotExited
    /\ ParserIdle /\ ToneIdle

NextEncoder ==
    \/ MainArgs \/ MainExists \/ MainExtension \/ EncodeRead
    \/ CheckRiff \/ CheckWave \/ ScanChunk \/ ScanExhausted
    \/ EncodeHeader \/ EncodeRow \/ EncodeFinish
    \/ MainPrint \/ MainExcept

SpecEncoder == InitEncoder /\ [][NextEncoder]_vars

\* wav_to_c_array has returned (enc_done) or raised (except)
EncoderEnded == pc \in {"enc_done", "except"}

Rows(out) == SelectSeq(out, LAMBDA l : l.t = "row")

\* ceil(N/16) rows in input order, 16 literals and a comma on every row but
\* the last, the remaining literals and no comma on the last
RowsOk(out, d) ==
    LET rows == Rows(out)
        n    == Len(d)
        m    == (n + 15) \div 16
    IN  /\ Len(rows) = m
        /\ \A k \in 1..m :
             /\ Len(rows[k].lits) = (IF k < m THEN 16 ELSE n - 16 * (m - 1))
             /\ rows[k].comma = (k < m)
             /\ \A j \in 1..Len(rows[k].lits) : rows[k].lits[j] = Hex(d[16 * (k - 1) + j])

\* the input is one read_wav_header returns a descriptor for
Accepted(d) ==
    /\ Len(d) >= 12 /\ SubSeq(d, 1, 4) = RIFF /\ SubSeq(d, 9, 12) = WAVE
    /\ FirstFmt(d, 12) >= 0 /\ FirstFmt(d, 12) + 24 <= Len(d)

\* C6 (as claimed): on an input of zero bytes the encoder succeeds with an
\* array declaration whose body is empty.
C6_EmptyInputEncodes ==
    (EncoderEnded /\ Len(data) = 0) =>
        /\ pc = "enc_done"
        /\ Rows(output) = <<>>
        /\ \E k \in 1..Len(output) : output[k].t = "open"
        /\ output[Len(output)].t = "len"

\* C6 (amended): on an input of zero bytes the encoder fails with the
\* invalid-container error and produces no text at all.
C6_EmptyInputRefused ==
    (EncoderEnded /\ Len(data) = 0) =>
        /\ pc = "except"
        /\ outcome.kind = "invalid_container"
        /\ output = <<>>

C6_Witness ==
    /\ pc = "except" /\ exists /\ argv.n = 3
    /\ file = <<>> /\ data = <<>>
    /\ outcome.kind = "invalid_container"

\* C7 (as claimed): for every input of N >= 1 bytes the encoder produces
\* ceil(N/16) rows in input order, 16 literals on every row but the last, a
\* comma after every row but the last (so 17 bytes give rows of 16 and 1).
C7_RowsEveryInput ==
    (EncoderEnded /\ Len(data) >= 1) => (pc = "enc_done" /\ RowsOk(output, data))

\* C7 (amended): the same for every input that read_wav_header accepts (such
\* an input has N >= 36 bytes); on any other input, 17 bytes included, the
\* encoder raises and produces no row.
C7_RowsAcceptedInput ==
    EncoderEnded =>
        IF Accepted(data)
        THEN pc = "enc_done" /\ Len(data) >= 36 /\ RowsOk(output, data)
        ELSE pc = "except" /\ output = <<>>

C7_Witness ==
    /\ pc = "enc_done"
    /\ Len(data) = 48
    /\ Len(Rows(output)) = 3
    /\ Rows(output)[2].comma /\ ~Rows(output)[3].comma
    /\ Len(Rows(output)[3].lits) = 16

\* C9: the process exits with status 1 and an empty standard output when the
\* argument count is not two, else when the path does not exist, else when
\* parsing or encoding raises (standard error names the first of these that
\* applies), and otherwise with status 0 and the complete text on standard
\* output; a path not ending in '.wav' (any case) adds a warning on standard
\* error and changes neither.
C9_ExitStatus ==
    pc = "exited" =>
        LET warn == IF EndsWith(Lower(argv.path), <<".", "w", "a", "v">>)
                    THEN <<>> ELSE <<"warning">>
        IN  IF argv.n # 3
            THEN exit_status = 1 /\ stdout = <<>> /\ stderr = <<"usage">>
            ELSE IF ~exists
            THEN exit_status = 1 /\ stdout = <<>> /\ stderr = <<"not_found">>
            ELSE IF ~Accepted(file)
            THEN exit_status = 1 /\ stdout = <<>> /\ stderr = warn \o <<"error">>
            ELSE /\ exit_status = 0
                 /\ stderr = warn
                 /\ Len(stdout) = 7 + (Len(file) + 15) \div 16
                 /\ stdout[1].t = "comment_name" /\ stdout[5].t = "open"
                 /\ RowsOk(stdout, file)
                 /\ stdout[Len(stdout) - 1].t = "close"
                 /\ stdout[Len(stdout)].t = "len"

\* a file that parses, under a name without the .wav extension
C9_Witness ==
    /\ pc = "exited"
    /\ argv.n = 3 /\ exists /\ argv.path = <<"a", ".", "b", "i", "n">>
    /\ Len(file) = 50
    /\ exit_status = 0
    /\ stderr = <<"warning">>
    /\ Len(Rows(stdout)) = 4

(***************************************************************************)
(* SpecTone: generate_tone, then generate_silence, on the same duration    *)
(* and sample rate.                                                        *)
(***************************************************************************)
Frequencies == {0, 440, 1000, 1500}
ToneRates == {0, 8000, 11025, 16000, 44100}

InitTone ==
    /\ pc = "tone"
    /\ frequency \in Frequencies
    /\ rate_hz \in ToneRates
    /\ duration_ms \in 0..MaxDurationMs
    /\ tone_i = 0 /\ tone = <<>> /\ silence = <<>>
    /\ ParserIdle /\ WriterIdle /\ MainIdle

NextTone == ToneStep \/ ToneReturn \/ GenerateSilence

SpecTone == InitTone /\ [][NextTone]_vars

\* C8: with the default amplitude generate_tone returns exactly
\* floor(sample_rate * duration_ms / 1000) samples, each in [-32768, 32767],
\* and generate_silence returns as many samples, all zero.
C8_ToneLengthAndRange ==
    /\ \A k \in 1..Len(tone) : tone[k] \in -32768..32767
    /\ pc \in {"silence", "generated"} => Len(tone) = (rate_hz * duration_ms) \div 1000
    /\ pc = "generated" =>
         /\ Len(silence) = (rate_hz * duration_ms) \div 1000
         /\ \A k \in 1..Len(silence) : silence[k] = 0

\* 11025 Hz for 3 ms is 33.075 samples: 33 are returned
C8_Witness ==
    /\ pc = "generated"
    /\ rate_hz = 11025 /\ duration_ms = 3 /\ frequency = 1000
    /\ Len(tone) = 33 /\ Len(silence) = 33
    /\ tone[1] = 0
    /\ \E k \in 1..Len(tone) : tone[k] = 9830
    /\ \E k \in 1..Len(tone) : tone[k] = -9830

====
